---- MODULE Spec2Model ----
(***************************************************************************)
(* Feedback collector: POST /correction, GET /export, GET /stats and       *)
(* GET /health over a relational store (default sqlite:///./feedback.db).  *)
(*                                                                         *)
(* A JSON object is a function from field names to JSON values; a missing  *)
(* field is a name outside its DOMAIN.  A JSON string is the record        *)
(* [ch, n]: the character ch repeated n times, as in the tests'            *)
(* "a" * 201.  JSON null is Null, a JSON list is [kind |-> "list", items]. *)
(***************************************************************************)
EXTENDS Integers, Sequences, FiniteSets, TLC

VARIABLES
    corrections,   \* committed rows of table feedback_corrections
    adjustments,   \* committed rows of table ingredient_adjustments
    writeLock,     \* request holding the store's write transaction, or Free
    post,          \* per POST /correction request: position, session, response
    reader,        \* the GET request in progress (export, stats or health)
    submitted,     \* history: committed correction id -> the payload that made it
    commitLog,     \* history: committed correction ids, in commit order
    sent,          \* history: requests received per endpoint in the current minute
    throttled,     \* history: responses with status 429 per endpoint
    journal,       \* history: what the POST requests answered so far came to
    taxonomy,      \* committed rows of table dish_taxonomy
    taxonomyFile,  \* data/taxonomy.json as the process finds it
    loader         \* per server process: position of its startup

vars == <<corrections, adjustments, writeLock, post, reader,
          submitted, commitLog, sent, throttled,
          journal, taxonomy, taxonomyFile, loader>>

(***************************************************************************)
(* Bounds of the model.                                                    *)
(***************************************************************************)
MaxCorrections == 2      \* committed corrections in the main specification
MaxTime == 2             \* distinct values of the server clock
MaxInputCorrections == 1 \* committed corrections in the input specification
MaxLabelCount == 2       \* stored corrections per label in the statistics specification

Writers == {"w1", "w2"}  \* POST requests in flight at once
Free == "free"           \* no request holds the write transaction
Times == 1..MaxTime

(***************************************************************************)
(* Program constants.                                                      *)
(***************************************************************************)
MaxNameLen == 200
MaxIngredientLen == 100
MaxNotesLen == 500
MinGrams == 1
MaxGrams == 10000
CorrectionQuota == 10
ExportQuota == 5
StatsQuota == 30

HTTP_200 == 200
HTTP_201 == 201
HTTP_401 == 401
HTTP_422 == 422
HTTP_429 == 429
HTTP_500 == 500
StatsLimit == 5

(***************************************************************************)
(* JSON values.                                                            *)
(***************************************************************************)
Null == [kind |-> "null"]
List(items) == [kind |-> "list", items |-> items]
Str(c, n) == IF n = 0 THEN [ch |-> "", n |-> 0] ELSE [ch |-> c, n |-> n]
IsStr(v) == DOMAIN v = {"ch", "n"}
IsList(v) == DOMAIN v = {"kind", "items"}
StrLen(s) == s.n

Without(f, k) == [y \in DOMAIN f \ {k} |-> f[y]]
With(f, k, v) == [y \in DOMAIN f \cup {k} |-> IF y = k THEN v ELSE f[y]]

(***************************************************************************)
(* schemas.py: the request models.                                         *)
(***************************************************************************)
ValidLength(s, lo, hi) == StrLen(s) >= lo /\ StrLen(s) <= hi

\* ge=0 in place of ge=1.
ValidGramsLoose(g) == g >= 0 /\ g <= MaxGrams
ValidGrams(g) == g >= MinGrams /\ g <= MaxGrams

\* DishPortion: name and grams required; the model sets no extra="forbid",
\* so pydantic's default applies and unknown fields are ignored.
DishPortionValid(o) ==
    /\ {"name", "grams"} \subseteq DOMAIN o
    /\ ValidLength(o.name, 1, MaxNameLen)
    /\ ValidGrams(o.grams)

DishPortion(o) == [name |-> o.name, grams |-> o.grams]

\* IngredientAdjustmentIn: ingredient and deltaGrams required, notes optional
\* (None by default); unknown fields are ignored here too.
IngredientAdjustmentInValid(a) ==
    /\ {"ingredient", "deltaGrams"} \subseteq DOMAIN a
    /\ ValidLength(a.ingredient, 1, MaxIngredientLen)
    /\ ("notes" \in DOMAIN a /\ a.notes # Null) => StrLen(a.notes) <= MaxNotesLen

IngredientAdjustmentIn(a) ==
    [ingredient |-> a.ingredient,
     deltaGrams |-> a.deltaGrams,
     notes      |-> IF "notes" \in DOMAIN a THEN a.notes ELSE Null]

CorrectionInFields == {"imageId", "original", "corrected", "adjustments"}

\* CorrectionIn: model_config = ConfigDict(extra="forbid") on this model only.
CorrectionInValid(p) ==
    /\ DOMAIN p \subseteq CorrectionInFields
    /\ {"imageId", "original", "corrected"} \subseteq DOMAIN p
    /\ ValidLength(p.imageId, 1, MaxNameLen)
    /\ DishPortionValid(p.original)
    /\ DishPortionValid(p.corrected)
    /\ ("adjustments" \in DOMAIN p /\ p.adjustments # Null) =>
           \A i \in DOMAIN p.adjustments.items :
               IngredientAdjustmentInValid(p.adjustments.items[i])

CorrectionIn(p) ==
    [imageId   |-> p.imageId,
     original  |-> DishPortion(p.original),
     corrected |-> DishPortion(p.corrected),
     adjustments |->
         IF "adjustments" \in DOMAIN p /\ p.adjustments # Null
         THEN List([i \in DOMAIN p.adjustments.items |->
                        IngredientAdjustmentIn(p.adjustments.items[i])])
         ELSE Null]

\* Python truthiness of Optional[List]: None and [] are both falsy.
Truthy(v) == IsList(v) /\ Len(v.items) > 0

\* The adjustment list a value stands for: null and [] both stand for none.
AdjItems(v) == IF IsList(v) THEN v.items ELSE <<>>

(***************************************************************************)
(* Inputs: request payloads and credentials.                               *)
(***************************************************************************)
Rice == Str("A", 1)
Ramen == Str("B", 1)

Salt == [ingredient |-> Str("S", 1), deltaGrams |-> -10, notes |-> Str("n", 1)]
Pepper == [ingredient |-> Str("P", 1), deltaGrams |-> 5]

PNone ==
    [imageId   |-> Str("i", 1),
     original  |-> [name |-> Rice, grams |-> 250],
     corrected |-> [name |-> Ramen, grams |-> 420]]

PNull == With(PNone, "adjustments", Null)
PEmpty == With(PNone, "adjustments", List(<<>>))
PTwo == With([PNone EXCEPT !.corrected.name = Rice], "adjustments", List(<<Salt, Pepper>>))
PEdge ==
    [imageId   |-> Str("i", MaxNameLen),
     original  |-> [name |-> Str("A", MaxNameLen), grams |-> MinGrams],
     corrected |-> [name |-> Str("B", MaxNameLen), grams |-> MaxGrams],
     adjustments |-> List(<<[ingredient |-> Str("S", MaxIngredientLen),
                             deltaGrams |-> 0,
                             notes      |-> Str("n", MaxNotesLen)],
                            [ingredient |-> Str("P", 1),
                             deltaGrams |-> 5,
                             notes      |-> Null]>>)]

\* Payloads with a field outside the schema.
\* A valid payload whose imageId is one line feed: no validator strips or
\* refuses control characters.
PLineBreak == [PNone EXCEPT !.imageId = Str("\n", 1)]

PExtraTop == With(PNone, "extraField", Str("x", 1))
PExtraOriginal == [PNone EXCEPT !.original = With(@, "unit", Str("g", 1))]
PExtraCorrected == [PTwo EXCEPT !.corrected = With(@, "unit", Str("g", 1))]
PExtraAdjustment ==
    With(PNone, "adjustments", List(<<With(Pepper, "brand", Str("x", 1))>>))

\* Payloads outside the documented bounds.
PMissingCorrected == Without(PNone, "corrected")
PMissingGrams == [PNone EXCEPT !.original = Without(@, "grams")]
PMissingImageId == Without(PNone, "imageId")
PMissingDelta ==
    With(PNone, "adjustments", List(<<Without(Pepper, "deltaGrams")>>))
PEmptyImageId == [PNone EXCEPT !.imageId = Str("i", 0)]
PLongImageId == [PNone EXCEPT !.imageId = Str("i", MaxNameLen + 1)]
PEmptyName == [PNone EXCEPT !.corrected.name = Str("B", 0)]
PLongName == [PNone EXCEPT !.original.name = Str("A", MaxNameLen + 1)]
PEmptyIngredient ==
    With(PNone, "adjustments", List(<<Salt, [Pepper EXCEPT !.ingredient = Str("P", 0)]>>))
PLongIngredient ==
    With(PNone, "adjustments",
         List(<<[Pepper EXCEPT !.ingredient = Str("P", MaxIngredientLen + 1)]>>))
PLongNotes ==
    With(PNone, "adjustments", List(<<[Salt EXCEPT !.notes = Str("n", MaxNotesLen + 1)]>>))
PZeroGrams == [PNone EXCEPT !.original.grams = MinGrams - 1]
PHeavyGrams == [PTwo EXCEPT !.corrected.grams = MaxGrams + 1]

OutOfBoundsPayloads ==
    {PMissingCorrected, PMissingGrams, PMissingImageId, PMissingDelta,
     PEmptyImageId, PLongImageId, PEmptyName, PLongName,
     PEmptyIngredient, PLongIngredient, PLongNotes, PZeroGrams, PHeavyGrams}

ExtraFieldPayloads == {PExtraTop, PExtraOriginal, PExtraCorrected, PExtraAdjustment}

InBoundsPayloads == {PNone, PNull, PEmpty, PTwo, PEdge}

AllPayloads == InBoundsPayloads \cup ExtraFieldPayloads \cup OutOfBoundsPayloads

\* The payloads of the concurrent specification.
Payloads == {PNone, PTwo, PZeroGrams}

\* Authorization header: absent, a key outside the key set, a configured key.
Credentials == {"absent", "invalid-key", "demo-key-123"}

Formats == {"jsonl", "csv", "invalid"}

Endpoints == {"correction", "export", "stats"}

(***************************************************************************)
(* The store: models.py tables under the default SQLite engine.            *)
(***************************************************************************)
Max(S) == IF S = {} THEN 0 ELSE CHOOSE m \in S : \A x \in S : x <= m

\* INTEGER PRIMARY KEY without AUTOINCREMENT: one more than the largest rowid
\* the inserting transaction can see.
NextId(rows) == Max({row.id : row \in rows}) + 1

\* BINARY collation of two strings c^n and d^m.
Alphabet == <<"A", "B", "C", "D", "E", "F", "G", "P", "S", "g", "i", "n", "x">>
CharRank(c) == CHOOSE i \in DOMAIN Alphabet : Alphabet[i] = c
StrLess(a, b) ==
    IF a.n = 0 THEN b.n > 0
    ELSE IF b.n = 0 THEN FALSE
    ELSE IF a.ch = b.ch THEN a.n < b.n
    ELSE CharRank(a.ch) < CharRank(b.ch)

\* The values v of a set of [k, v] pairs with distinct integer keys, in
\* ascending key order.
RECURSIVE SortKeyed(_)
SortKeyed(pairs) ==
    IF pairs = {} THEN <<>>
    ELSE LET first == CHOOSE q \in pairs : \A o \in pairs : q.k <= o.k
         IN  <<first.v>> \o SortKeyed(pairs \ {first})

\* FeedbackCorrection(...) built from the validated payload; id and created_at
\* (default=datetime.utcnow) are set by the INSERT that flush emits.
FeedbackCorrection(payload, id, now) ==
    [id              |-> id,
     image_id        |-> payload.imageId,
     original_name   |-> payload.original.name,
     original_grams  |-> payload.original.grams,
     corrected_name  |-> payload.corrected.name,
     corrected_grams |-> payload.corrected.grams,
     created_at      |-> now]

\* IngredientAdjustment(...) built in the handler's loop; its id is set by the
\* INSERT emitted when commit flushes the session.
IngredientAdjustment(correction_id, adj, id) ==
    [id            |-> id,
     correction_id |-> correction_id,
     ingredient    |-> adj.ingredient,
     delta_grams   |-> adj.deltaGrams,
     notes         |-> adj.notes]

\* The objects the handler adds to the session after the flush, in loop order.
PendingAdjustments(payload) ==
    IF Truthy(payload.adjustments) THEN payload.adjustments.items ELSE <<>>

\* The same read answered through the (correction_id, ingredient) index.
AdjustmentsByIngredient(rows, correction_id) ==
    LET mine == {a \in rows : a.correction_id = correction_id}
        Before(b, a) == \/ StrLess(b.ingredient, a.ingredient)
                        \/ b.ingredient = a.ingredient /\ b.id < a.id
    IN  SortKeyed({[k |-> Cardinality({b \in mine : Before(b, a)}), v |-> a] :
                      a \in mine})

\* The relationship FeedbackCorrection.adjustments as loaded from the store.
\* The SELECT has no ORDER BY; SQLite answers it through the index on
\* correction_id, which yields the rows of one correction in rowid order.
LoadAdjustments(rows, correction_id) ==
    SortKeyed({[k |-> a.id, v |-> a] :
                  a \in {x \in rows : x.correction_id = correction_id}})

\* ORDER BY id DESC.
OrderByIdDesc(rows) == SortKeyed({[k |-> 0 - row.id, v |-> row] : row \in rows})
\* SELECT ... FROM feedback_corrections ORDER BY id ASC.
OrderById(rows) == SortKeyed({[k |-> row.id, v |-> row] : row \in rows})

(***************************************************************************)
(* Request state.                                                          *)
(***************************************************************************)
IdlePost ==
    [pc |-> "idle", credential |-> "none", raw |-> Null, row |-> Null,
     pending |-> <<>>, status |-> 0, body |-> Null, persisted |-> FALSE]

IdleReader ==
    [pc |-> "idle", kind |-> "none", credential |-> "none", format |-> "none",
     rows |-> <<>>, known |-> {}, last |-> 0, status |-> 0, body |-> Null]

Responded(slot, status, body) ==
    [slot EXCEPT !.pc = "done", !.status = status, !.body = body]

\* Nothing recorded yet about the POST requests.
NoJournal == [refused |-> {}, created |-> Null, asked |-> Null, rolledBack |-> {}]

\* The server processes (uvicorn workers); each runs lifespan once per start.
Processes == {"p1", "p2"}
\* os.path.exists("data/taxonomy.json") is false.
NoFile == [kind |-> "missing"]

\* A process whose startup is over and which serves requests.  outcome is how
\* its load ended: "missing" (no file), "present" (table already populated),
\* "loaded" (committed) or "error" (exception swallowed); populated records
\* whether the table held rows when the load began.
ServingLoader(outcome, populated) ==
    [pc |-> "serving", data |-> Null, session |-> <<>>,
     outcome |-> outcome, populated |-> populated]

\* The service after a startup that found no taxonomy file: empty tables, no
\* request in flight.
Init ==
    /\ corrections = {}
    /\ adjustments = {}
    /\ writeLock = Free
    /\ post = [r \in Writers |-> IdlePost]
    /\ reader = IdleReader
    /\ submitted = <<>>
    /\ commitLog = <<>>
    /\ sent = [e \in Endpoints |-> 0]
    /\ throttled = [e \in Endpoints |-> 0]
    /\ journal = NoJournal
    /\ taxonomy = {}
    /\ taxonomyFile = NoFile
    /\ loader = [w \in Processes |-> ServingLoader("missing", FALSE)]

(***************************************************************************)
(* The auth gate and the routes' dependencies.                             *)
(***************************************************************************)
\* app.auth.verify_api_key: accepts a credential of the configured key set.
verify_api_key(credential) == credential = "demo-key-123"

\* Which routes declare current_user = Depends(verify_api_key).
\* Routes declared without the dependency.
NoRouteRequiresAuth(route) == FALSE
RequiresAuth(route) == route \in {"correction", "export", "stats"}

Authorized(route, credential) ==
    RequiresAuth(route) => verify_api_key(credential)

(***************************************************************************)
(* POST /correction (routers/feedback.py, post_correction).                *)
(***************************************************************************)
\* The session's rollback: the open transaction's rows were never visible, so
\* rolling back drops the session's work and gives the write transaction up.
Rollback(r) == IF writeLock = r THEN Free ELSE writeLock

AdjustmentOut(adj) ==
    [ingredient |-> adj.ingredient,
     deltaGrams |-> adj.delta_grams,
     notes      |-> adj.notes]

AdjustmentsOut(loaded) == [i \in DOMAIN loaded |-> AdjustmentOut(loaded[i])]

\* The CorrectionOut the handler returns.
CorrectionOut(correction, payload, loaded) ==
    [id          |-> correction.id,
     imageId     |-> correction.image_id,
     original    |-> payload.original,
     corrected   |-> payload.corrected,
     adjustments |-> IF Len(loaded) > 0 THEN List(AdjustmentsOut(loaded)) ELSE Null,
     createdAt   |-> correction.created_at]

\* The request reaches the route: the dependencies run (get_db opens a session,
\* verify_api_key checks the credential), then the body is validated against
\* CorrectionIn; only then is the handler entered.
PostCorrectionRequest(r, credential, p) ==
    /\ post[r].pc = "idle"
    /\ post' = [post EXCEPT ![r] =
           LET request == [IdlePost EXCEPT !.credential = credential]
           IN  IF ~Authorized("correction", credential)
               THEN Responded(request, HTTP_401, Null)
               ELSE IF ~CorrectionInValid(p)
               THEN Responded([request EXCEPT !.raw = p], HTTP_422, Null)
               ELSE [request EXCEPT !.pc = "add", !.raw = p]]
    /\ UNCHANGED <<corrections, adjustments, writeLock, reader, submitted, commitLog>>

\* db.add(correction); db.flush(): the INSERT opens the write transaction and
\* assigns the id; then the loop adds the adjustment objects to the session.
\* The same step on a connection that commits every statement by itself.
PostFlushAutocommit(r) ==
    /\ post[r].pc = "add"
    /\ writeLock = Free
    /\ \E now \in Times :
         LET payload == CorrectionIn(post[r].raw)
             correction == FeedbackCorrection(payload, NextId(corrections), now)
         IN  /\ post' = [post EXCEPT ![r].pc = "commit",
                                     ![r].row = correction,
                                     ![r].pending = PendingAdjustments(payload)]
             /\ corrections' = corrections \cup {correction}
    /\ writeLock' = r
    /\ UNCHANGED <<adjustments, reader, submitted, commitLog>>

\* The same step against a store that lets two transactions insert at once,
\* each numbering its row from the committed rows.
PostFlushUnlocked(r) ==
    /\ post[r].pc = "add"
    /\ \E now \in Times :
         LET payload == CorrectionIn(post[r].raw)
             correction == FeedbackCorrection(payload, NextId(corrections), now)
         IN  post' = [post EXCEPT ![r].pc = "commit",
                                  ![r].row = correction,
                                  ![r].pending = PendingAdjustments(payload)]
    /\ writeLock' = r
    /\ UNCHANGED <<corrections, adjustments, reader, submitted, commitLog>>

PostFlush(r) ==
    /\ post[r].pc = "add"
    /\ writeLock = Free
    /\ \E now \in Times :
         LET payload == CorrectionIn(post[r].raw)
             correction == FeedbackCorrection(payload, NextId(corrections), now)
         IN  post' = [post EXCEPT ![r].pc = "commit",
                                  ![r].row = correction,
                                  ![r].pending = PendingAdjustments(payload)]
    /\ writeLock' = r
    /\ UNCHANGED <<corrections, adjustments, reader, submitted, commitLog>>

\* db.commit(): flushes the pending adjustments and makes the transaction's
\* rows visible at once.
PostCommit(r) ==
    /\ post[r].pc = "commit"
    /\ writeLock = r
    /\ LET correction == post[r].row
           pending == post[r].pending
           base == NextId(adjustments)
       IN  /\ corrections' = corrections \cup {correction}
           /\ adjustments' = adjustments \cup
                  {IngredientAdjustment(correction.id, pending[i], base + i - 1) :
                      i \in DOMAIN pending}
           /\ submitted' = (correction.id :> post[r].raw) @@ submitted
           /\ commitLog' = Append(commitLog, correction.id)
    /\ writeLock' = Free
    /\ post' = [post EXCEPT ![r].pc = "refresh", ![r].pending = <<>>,
                            ![r].persisted = TRUE]
    /\ UNCHANGED reader

\* db.refresh(correction); db.refresh(correction, ["adjustments"]); return.
PostRefresh(r) ==
    /\ post[r].pc = "refresh"
    /\ LET correction == CHOOSE c \in corrections : c.id = post[r].row.id
           loaded == LoadAdjustments(adjustments, correction.id)
       IN  post' = [post EXCEPT ![r] =
               Responded([@ EXCEPT !.row = correction], HTTP_201,
                         CorrectionOut(correction, CorrectionIn(@.raw), loaded))]
    /\ UNCHANGED <<corrections, adjustments, writeLock, reader, submitted, commitLog>>

\* except Exception: db.rollback(); raise HTTPException(500).  The store can
\* fail at the add/flush, while adjustments are added, at the commit and at
\* the refresh that follows the commit.
PostStorageFault(r) ==
    /\ post[r].pc \in {"add", "commit", "refresh"}
    /\ writeLock' = Rollback(r)
    /\ post' = [post EXCEPT ![r] =
           Responded([@ EXCEPT !.pending = <<>>], HTTP_500, Null)]
    /\ UNCHANGED <<corrections, adjustments, reader, submitted, commitLog>>

(***************************************************************************)
(* GET /export (export_feedback, _stream_jsonl, _stream_csv).              *)
(***************************************************************************)
\* json.dumps(v): the text whose decoding is v.
JsonDumps(v) == [json |-> v]

\* created_at.isoformat() + "Z"
IsoZ(t) == [iso |-> t, suffix |-> "Z"]

\* The list comprehension without the notes value.
AdjustmentsDataNoNotes(loaded) ==
    [i \in DOMAIN loaded |-> [AdjustmentOut(loaded[i]) EXCEPT !.notes = Null]]
AdjustmentsData(loaded) == [i \in DOMAIN loaded |-> AdjustmentOut(loaded[i])]

\* The object with the adjustments key set unconditionally.
JsonlObjectAlways(correction, loaded) ==
    [id        |-> correction.id,
     imageId   |-> correction.image_id,
     original  |-> [name |-> correction.original_name,
                    grams |-> correction.original_grams],
     corrected |-> [name |-> correction.corrected_name,
                    grams |-> correction.corrected_grams],
     createdAt |-> IsoZ(correction.created_at),
     adjustments |-> AdjustmentsData(loaded)]

\* One line of _stream_jsonl: the object, before json.dumps(obj) + "\n".
JsonlObject(correction, loaded) ==
    LET obj == [id        |-> correction.id,
                imageId   |-> correction.image_id,
                original  |-> [name |-> correction.original_name,
                               grams |-> correction.original_grams],
                corrected |-> [name |-> correction.corrected_name,
                               grams |-> correction.corrected_grams],
                createdAt |-> IsoZ(correction.created_at)]
    IN  IF Len(loaded) > 0
        THEN With(obj, "adjustments", AdjustmentsData(loaded))
        ELSE obj

CsvHeader ==
    <<"id", "imageId", "original_name", "original_grams",
      "corrected_name", "corrected_grams", "adjustments", "createdAt">>

\* The row with the timestamp cell written without the "Z".
CsvRowNoZone(correction, loaded) ==
    [id              |-> correction.id,
     imageId         |-> correction.image_id,
     original_name   |-> correction.original_name,
     original_grams  |-> correction.original_grams,
     corrected_name  |-> correction.corrected_name,
     corrected_grams |-> correction.corrected_grams,
     adjustments     |-> IF Len(loaded) > 0
                         THEN JsonDumps(AdjustmentsData(loaded))
                         ELSE Str("", 0),
     createdAt       |-> [iso |-> correction.created_at, suffix |-> ""]]

\* One data row of _stream_csv, cell by cell under the header's names.
CsvRow(correction, loaded) ==
    [id              |-> correction.id,
     imageId         |-> correction.image_id,
     original_name   |-> correction.original_name,
     original_grams  |-> correction.original_grams,
     corrected_name  |-> correction.corrected_name,
     corrected_grams |-> correction.corrected_grams,
     adjustments     |-> IF Len(loaded) > 0
                         THEN JsonDumps(AdjustmentsData(loaded))
                         ELSE Str("", 0),
     createdAt       |-> IsoZ(correction.created_at)]

_stream_jsonl(rows, adjustmentRows) ==
    [i \in DOMAIN rows |->
        JsonDumps(JsonlObject(rows[i], LoadAdjustments(adjustmentRows, rows[i].id)))]

\* The line breaks a string holds.
LineBreaks(s) == IF s.ch = "\n" THEN s.n ELSE 0

\* The lines of text one writer.writerow(...) of _stream_csv yields: the
\* writer quotes a cell that holds a line break and writes the break as it
\* is; the adjustments cell is JSON text, in which json.dumps escapes it.
CsvRowLines(row) ==
    1 + LineBreaks(row.imageId) + LineBreaks(row.original_name)
      + LineBreaks(row.corrected_name)

\* The lines of text one json.dumps(obj) + "\n" yields: json.dumps escapes
\* every line break inside a string.
JsonlLines(line) == 1

\* writer.writerow(cells) for cells that need no quoting, without the line end.
RECURSIVE Writerow(_)
Writerow(cells) ==
    IF Len(cells) = 0 THEN ""
    ELSE IF Len(cells) = 1 THEN cells[1]
    ELSE cells[1] \o "," \o Writerow(Tail(cells))

\* The generator with a closing row that repeats the last one.
_stream_csv_trailing(rows, adjustmentRows) ==
    [i \in 1..(Len(rows) + 1) |->
        LET row == IF i <= Len(rows) THEN rows[i]
                   ELSE FeedbackCorrection(PNone, 0, 1)
        IN  CsvRow(row, LoadAdjustments(adjustmentRows, row.id))]
_stream_csv(rows, adjustmentRows) ==
    [i \in DOMAIN rows |->
        CsvRow(rows[i], LoadAdjustments(adjustmentRows, rows[i].id))]

\* The request reaches the route: verify_api_key, then the format query
\* parameter is matched against ^(csv|jsonl)$; the handler builds the statement
\* and returns the StreamingResponse.
ExportRequest(credential, format) ==
    /\ reader.pc = "idle"
    /\ reader' =
           LET request == [IdleReader EXCEPT !.kind = "export",
                                             !.credential = credential]
           IN  IF ~Authorized("export", credential)
               THEN Responded(request, HTTP_401, Null)
               ELSE IF format \notin {"csv", "jsonl"}
               THEN Responded([request EXCEPT !.format = format], HTTP_422, Null)
               ELSE [request EXCEPT !.pc = "query", !.format = format]
    /\ UNCHANGED <<corrections, adjustments, writeLock, post,
                   submitted, commitLog>>

\* result = db.execute(stmt): the corrections are read in one SELECT.
ExportQuery ==
    /\ reader.pc = "query"
    /\ reader' = [reader EXCEPT !.pc = "load",
                                !.rows = OrderById(corrections),
                                !.known = DOMAIN submitted,
                                !.last = IF commitLog = <<>> THEN 0
                                         ELSE commitLog[Len(commitLog)]]
    /\ UNCHANGED <<corrections, adjustments, writeLock, post,
                   submitted, commitLog>>

\* selectinload reads the adjustments of the corrections just read in a second
\* SELECT; the generator then yields one line per correction.
ExportStream ==
    /\ reader.pc = "load"
    /\ reader' = Responded(reader, HTTP_200,
           IF reader.format = "jsonl"
           THEN [lines |-> _stream_jsonl(reader.rows, adjustments)]
           ELSE [header |-> CsvHeader,
                 lines |-> _stream_csv(reader.rows, adjustments)])
    /\ UNCHANGED <<corrections, adjustments, writeLock, post,
                   submitted, commitLog>>

(***************************************************************************)
(* GET /stats (feedback_stats) and GET /health (health_check).             *)
(***************************************************************************)
\* The statement with ties left in descending label order.
Top5TiesDescending(rows) ==
    LET labels == {c.corrected_name : c \in rows}
        Count(l) == Cardinality({c \in rows : c.corrected_name = l})
        Before(a, b) == \/ Count(a) > Count(b)
                        \/ Count(a) = Count(b) /\ StrLess(b, a)
        ordered == SortKeyed({[k |-> Cardinality({a \in labels : Before(a, l)}),
                               v |-> [label |-> l, count |-> Count(l)]] :
                                 l \in labels})
    IN  SubSeq(ordered, 1, IF Len(ordered) < StatsLimit THEN Len(ordered)
                           ELSE StatsLimit)

\* SELECT corrected_name, count(*) ... GROUP BY corrected_name
\* ORDER BY count(*) DESC, corrected_name ASC LIMIT 5
Top5(rows) ==
    LET labels == {c.corrected_name : c \in rows}
        Count(l) == Cardinality({c \in rows : c.corrected_name = l})
        Before(a, b) == \/ Count(a) > Count(b)
                        \/ Count(a) = Count(b) /\ StrLess(a, b)
        ordered == SortKeyed({[k |-> Cardinality({a \in labels : Before(a, l)}),
                               v |-> [label |-> l, count |-> Count(l)]] :
                                 l \in labels})
    IN  SubSeq(ordered, 1, IF Len(ordered) < StatsLimit THEN Len(ordered)
                           ELSE StatsLimit)

StatsRequest(credential) ==
    /\ reader.pc = "idle"
    /\ reader' =
           LET request == [IdleReader EXCEPT !.kind = "stats",
                                             !.credential = credential]
           IN  IF ~Authorized("stats", credential)
               THEN Responded(request, HTTP_401, Null)
               ELSE [request EXCEPT !.pc = "stats"]
    /\ UNCHANGED <<corrections, adjustments, writeLock, post,
                   submitted, commitLog>>

\* The handler answering from a result computed before the newest correction.
feedback_stats_stale ==
    /\ reader.pc = "stats"
    /\ reader' = Responded(reader, HTTP_200,
           [top5 |-> Top5({c \in corrections : c.id < Max({d.id : d \in corrections})})])
    /\ UNCHANGED <<corrections, adjustments, writeLock, post,
                   submitted, commitLog>>

feedback_stats ==
    /\ reader.pc = "stats"
    /\ reader' = Responded(reader, HTTP_200, [top5 |-> Top5(corrections)])
    /\ UNCHANGED <<corrections, adjustments, writeLock, post,
                   submitted, commitLog>>

\* except Exception: raise HTTPException(500) when the query fails.
StatsStorageFault ==
    /\ reader.pc = "stats"
    /\ reader' = Responded(reader, HTTP_500, Null)
    /\ UNCHANGED <<corrections, adjustments, writeLock, post,
                   submitted, commitLog>>

health_check(credential) ==
    /\ reader.pc = "idle"
    /\ reader' =
           LET request == [IdleReader EXCEPT !.kind = "health",
                                             !.credential = credential]
           IN  IF ~Authorized("health", credential)
               THEN Responded(request, HTTP_401, Null)
               ELSE Responded(request, HTTP_200, [status |-> "ok"])
    /\ UNCHANGED <<corrections, adjustments, writeLock, post,
                   submitted, commitLog>>

(***************************************************************************)
(* Specifications.                                                         *)
(***************************************************************************)
History == <<sent, throttled>>
\* The startup's state, which no request handler reads or writes.
Startup == <<taxonomy, taxonomyFile, loader>>
Aside == <<History, journal, Startup>>

\* A response is observed when it is sent; the request then leaves, and takes
\* no further part in the system.
PostResponseSent(r) ==
    /\ post[r].pc = "done"
    /\ post' = [post EXCEPT ![r] = IdlePost]
    /\ UNCHANGED <<corrections, adjustments, writeLock, reader,
                   submitted, commitLog>>

ReaderResponseSent ==
    /\ reader.pc = "done"
    /\ reader' = IdleReader
    /\ UNCHANGED <<corrections, adjustments, writeLock, post,
                   submitted, commitLog>>

\* No response is waiting to be sent.  A sent response changes nothing another
\* request reads, so the model sends each one before it takes the next step.
Quiet == reader.pc # "done" /\ \A r \in Writers : post[r].pc # "done"

\* Concurrent requests: two writers and a reader against one store.
Next ==
    \/ \E r \in Writers, credential \in Credentials, p \in Payloads :
           Quiet /\ PostCorrectionRequest(r, credential, p) /\ UNCHANGED Aside
    \/ \E r \in Writers :
           /\ Quiet
           /\ Cardinality(corrections) < MaxCorrections
           /\ PostFlush(r) /\ UNCHANGED Aside
    \/ \E r \in Writers : Quiet /\ PostCommit(r) /\ UNCHANGED Aside
    \/ \E r \in Writers : Quiet /\ PostRefresh(r) /\ UNCHANGED Aside
    \/ \E r \in Writers : Quiet /\ PostStorageFault(r) /\ UNCHANGED Aside
    \/ \E r \in Writers : PostResponseSent(r) /\ UNCHANGED Aside
    \/ \E credential \in Credentials, format \in Formats :
           Quiet /\ ExportRequest(credential, format) /\ UNCHANGED Aside
    \/ Quiet /\ ExportQuery /\ UNCHANGED Aside
    \/ Quiet /\ ExportStream /\ UNCHANGED Aside
    \/ \E credential \in Credentials :
           Quiet /\ StatsRequest(credential) /\ UNCHANGED Aside
    \/ Quiet /\ feedback_stats /\ UNCHANGED Aside
    \/ Quiet /\ StatsStorageFault /\ UNCHANGED Aside
    \/ \E credential \in Credentials :
           Quiet /\ health_check(credential) /\ UNCHANGED Aside
    \/ ReaderResponseSent /\ UNCHANGED Aside

Spec == Init /\ [][Next]_vars

\* One client at a time, every payload of the input set.
NextInput ==
    \/ \E credential \in Credentials, p \in AllPayloads :
           Quiet /\ PostCorrectionRequest("w1", credential, p) /\ UNCHANGED Aside
    \/ /\ Quiet
       /\ Cardinality(corrections) < MaxInputCorrections
       /\ PostFlush("w1") /\ UNCHANGED Aside
    \/ Quiet /\ PostCommit("w1") /\ UNCHANGED Aside
    \/ Quiet /\ PostRefresh("w1") /\ UNCHANGED Aside
    \/ Quiet /\ PostStorageFault("w1") /\ UNCHANGED Aside
    \/ PostResponseSent("w1") /\ UNCHANGED Aside
    \/ \E credential \in Credentials, format \in Formats :
           Quiet /\ ExportRequest(credential, format) /\ UNCHANGED Aside
    \/ Quiet /\ ExportQuery /\ UNCHANGED Aside
    \/ Quiet /\ ExportStream /\ UNCHANGED Aside
    \/ ReaderResponseSent /\ UNCHANGED Aside

SpecInput == Init /\ [][NextInput]_vars

(***************************************************************************)
(* One minute of one authenticated client (tests/test_rate_limiting.py).   *)
(***************************************************************************)
\* security.py get_rate_limits: requests per minute per client address.
get_rate_limits ==
    [correction |-> CorrectionQuota, export |-> ExportQuota, stats |-> StatsQuota]

\* The test sends quota + 2 requests to an endpoint.
Burst(route) == get_rate_limits[route] + 2

Idle == reader.pc = "idle" /\ \A r \in Writers : post[r].pc = "idle"

\* Whether this step answers a request to the route with the status.
Answers(route, status) ==
    IF route = "correction"
    THEN \E r \in Writers : /\ post[r].pc # "done"
                            /\ post'[r].pc = "done"
                            /\ post'[r].status = status
    ELSE /\ reader.pc # "done"
         /\ reader'.pc = "done"
         /\ reader'.kind = route
         /\ reader'.status = status

Received(route) ==
    /\ Idle
    /\ sent[route] < Burst(route)
    /\ sent' = [sent EXCEPT ![route] = @ + 1]

Tally ==
    /\ throttled' = [route \in Endpoints |->
                        throttled[route] + IF Answers(route, HTTP_429) THEN 1 ELSE 0]
    /\ UNCHANGED <<journal, Startup>>

NextRate ==
    \/ Received("correction") /\ PostCorrectionRequest("w1", "demo-key-123", PNone)
                              /\ Tally
    \/ PostFlush("w1") /\ post'["w1"].row.created_at = 1 /\ UNCHANGED sent /\ Tally
    \/ PostCommit("w1") /\ UNCHANGED sent /\ Tally
    \/ PostRefresh("w1") /\ UNCHANGED sent /\ Tally
    \/ PostResponseSent("w1") /\ UNCHANGED sent /\ Tally
    \/ Received("export") /\ ExportRequest("demo-key-123", "jsonl") /\ Tally
    \/ ExportQuery /\ UNCHANGED sent /\ Tally
    \/ ExportStream /\ UNCHANGED sent /\ Tally
    \/ Received("stats") /\ StatsRequest("demo-key-123") /\ Tally
    \/ feedback_stats /\ UNCHANGED sent /\ Tally
    \/ ReaderResponseSent /\ UNCHANGED sent /\ Tally

SpecRate == Init /\ [][NextRate]_vars

(***************************************************************************)
(* One writer and one reader, with the journal of the POST answers kept.   *)
(***************************************************************************)
\* This step answers the POST request r.
Answered(r) == post[r].pc # "done" /\ post'[r].pc = "done"

\* The journal after this step, in the entries kept: the statuses of the
\* refused and failed POSTs, the corrected name of the POST answered 201 last,
\* that name as it stood when the GET /stats in progress arrived, and the ids
\* flush handed to requests that then rolled back.
Journal(kept) ==
    /\ journal' =
           [refused |->
                IF "refused" \notin kept THEN journal.refused
                ELSE journal.refused \cup
                     {post'[r].status :
                         r \in {w \in Writers : /\ Answered(w)
                                                /\ post'[w].status # HTTP_201}},
            created |->
                IF /\ "created" \in kept
                   /\ \E r \in Writers : Answered(r) /\ post'[r].status = HTTP_201
                THEN LET r == CHOOSE w \in Writers :
                                  Answered(w) /\ post'[w].status = HTTP_201
                     IN  post'[r].body.corrected.name
                ELSE journal.created,
            asked |->
                IF "created" \in kept /\ reader.pc = "idle" /\ reader'.kind = "stats"
                THEN journal.created
                ELSE journal.asked,
            rolledBack |->
                IF "rolledBack" \notin kept THEN journal.rolledBack
                ELSE journal.rolledBack \cup
                     {post[r].row.id :
                         r \in {w \in Writers : /\ Answered(w)
                                                /\ post'[w].status = HTTP_500
                                                /\ post[w].pc = "commit"}}]
    /\ UNCHANGED <<History, Startup>>

ExportPayloads == {PNone, PTwo, PZeroGrams, PLineBreak}

NextExport ==
    \/ \E credential \in Credentials, p \in ExportPayloads :
           Quiet /\ PostCorrectionRequest("w1", credential, p) /\ Journal({"refused"})
    \/ /\ Quiet
       /\ Cardinality(corrections) < MaxCorrections
       /\ PostFlush("w1") /\ Journal({"refused"})
    \/ Quiet /\ PostCommit("w1") /\ Journal({"refused"})
    \/ Quiet /\ PostRefresh("w1") /\ Journal({"refused"})
    \/ Quiet /\ PostStorageFault("w1") /\ Journal({"refused"})
    \/ PostResponseSent("w1") /\ Journal({"refused"})
    \/ \E credential \in Credentials, format \in Formats :
           Quiet /\ ExportRequest(credential, format) /\ Journal({"refused"})
    \/ Quiet /\ ExportQuery /\ Journal({"refused"})
    \/ Quiet /\ ExportStream /\ Journal({"refused"})
    \/ ReaderResponseSent /\ Journal({"refused"})

SpecExport == Init /\ [][NextExport]_vars

(***************************************************************************)
(* Startup (main.py: lifespan, load_taxonomy_data).                        *)
(***************************************************************************)
Service == <<corrections, adjustments, writeLock, post, reader, submitted, commitLog>>

\* Entries of the file's "dishes" list.
Tonkotsu == [id |-> "d1", name |-> "Tonkotsu Ramen", aliases |-> <<"ramen">>]
FriedRice == [id |-> "d2", name |-> "Fried Rice"]
Pho == [id |-> "d3", name |-> "Pho"]
Nameless == [id |-> "d4"]
SameId == [id |-> "d1", name |-> "Shoyu Ramen"]
SameName == [id |-> "d5", name |-> "Tonkotsu Ramen"]

\* open(...) or json.load(f) raises: no permission, or not JSON.
Unreadable == [kind |-> "unreadable"]
\* A file json.load reads as the value.
JsonFile(data) == [kind |-> "json", data |-> data]

TaxonomyFiles ==
    {NoFile, Unreadable, JsonFile(List(<<>>)), JsonFile(<<>>)} \cup
    {JsonFile([dishes |-> dishes]) :
        dishes \in {<<>>, <<Tonkotsu>>, <<Tonkotsu, FriedRice>>, <<Pho>>,
                    <<Tonkotsu, Nameless>>, <<Tonkotsu, SameId>>,
                    <<FriedRice, SameName, Tonkotsu>>}}

\* dish_data.get(key, default)
Get(dish_data, key, default) ==
    IF key \in DOMAIN dish_data THEN dish_data[key] ELSE default

\* DishTaxonomy(id=dish_data["id"], name=dish_data["name"], ...) as the INSERT
\* stores it, the column defaults filled in.
DishTaxonomy(dish_data, now) ==
    [id              |-> dish_data.id,
     name            |-> dish_data.name,
     aliases         |-> Get(dish_data, "aliases", <<>>),
     ingredients     |-> Get(dish_data, "ingredients", <<>>),
     macros_per_100g |-> Get(dish_data, "macros_per_100g", <<>>),
     is_active       |-> 1,
     created_at      |-> now,
     updated_at      |-> now]

\* The flush of the session's dishes meets the primary key on id or the
\* unique constraint on name.
IntegrityError(rows, session) ==
    \/ \E i, j \in DOMAIN session :
           i # j /\ (session[i].id = session[j].id \/ session[i].name = session[j].name)
    \/ \E i \in DOMAIN session, row \in rows :
           session[i].id = row.id \/ session[i].name = row.name

\* except Exception as e: print(...): the load is over, the startup goes on.
Swallowed(w) ==
    loader' = [loader EXCEPT ![w] = ServingLoader("error", @.populated)]

\* The process starts: lifespan creates the tables and calls the load.
Lifespan(w) ==
    /\ loader[w].pc = "down"
    /\ loader' = [loader EXCEPT ![w].pc = "exists", ![w].populated = taxonomy # {}]
    /\ UNCHANGED <<taxonomy, taxonomyFile, Service, History, journal>>

\* if not os.path.exists(taxonomy_file): return
LoadExists(w) ==
    /\ loader[w].pc = "exists"
    /\ loader' = [loader EXCEPT ![w] =
           IF taxonomyFile = NoFile
           THEN ServingLoader("missing", @.populated)
           ELSE [@ EXCEPT !.pc = "read"]]
    /\ UNCHANGED <<taxonomy, taxonomyFile, Service, History, journal>>

\* with open(taxonomy_file, "r") as f: data = json.load(f)
LoadRead(w) ==
    /\ loader[w].pc = "read"
    /\ IF taxonomyFile.kind = "json"
       THEN loader' = [loader EXCEPT ![w].pc = "query", ![w].data = taxonomyFile.data]
       ELSE Swallowed(w)
    /\ UNCHANGED <<taxonomy, taxonomyFile, Service, History, journal>>

\* The load without the look at the table.
LoadQueryUnchecked(w) ==
    /\ loader[w].pc = "query"
    /\ loader' = [loader EXCEPT ![w].pc = "add"]
    /\ UNCHANGED <<taxonomy, taxonomyFile, Service, History, journal>>

\* existing = db.query(DishTaxonomy).first(); if existing: return
LoadQuery(w) ==
    /\ loader[w].pc = "query"
    /\ loader' = [loader EXCEPT ![w] =
           IF taxonomy # {}
           THEN ServingLoader("present", @.populated)
           ELSE [@ EXCEPT !.pc = "add"]]
    /\ UNCHANGED <<taxonomy, taxonomyFile, Service, History, journal>>

\* for dish_data in data.get("dishes", []): db.add(DishTaxonomy(...)).  A
\* value that is no object has no get, an entry without id or name raises
\* KeyError; the objects added so far are dropped with the session.
LoadAdd(w) ==
    /\ loader[w].pc = "add"
    /\ LET data == loader[w].data
           dishes == Get(data, "dishes", <<>>)
       IN  IF \/ IsList(data)
              \/ \E i \in DOMAIN dishes : ~({"id", "name"} \subseteq DOMAIN dishes[i])
           THEN Swallowed(w)
           ELSE \E now \in Times :
                    loader' = [loader EXCEPT
                        ![w].pc = "commit",
                        ![w].session = [i \in DOMAIN dishes |->
                                           DishTaxonomy(dishes[i], now)]]
    /\ UNCHANGED <<taxonomy, taxonomyFile, Service, History, journal>>

\* db.commit(): the flush inserts the session's dishes in one transaction,
\* which a constraint violation rolls back whole.
LoadCommit(w) ==
    /\ loader[w].pc = "commit"
    /\ writeLock = Free
    /\ LET session == loader[w].session
       IN  IF IntegrityError(taxonomy, session)
           THEN Swallowed(w) /\ UNCHANGED taxonomy
           ELSE /\ taxonomy' = taxonomy \cup {session[i] : i \in DOMAIN session}
                /\ loader' = [loader EXCEPT ![w] = ServingLoader("loaded", @.populated)]
    /\ UNCHANGED <<taxonomyFile, Service, History, journal>>

\* The store fails the query or the commit (no table, locked, unavailable).
LoadStorageFault(w) ==
    /\ loader[w].pc \in {"query", "commit"}
    /\ Swallowed(w)
    /\ UNCHANGED <<taxonomy, taxonomyFile, Service, History, journal>>

\* The process stops; its next start runs lifespan again.
Restart(w) ==
    /\ loader[w].pc = "serving"
    /\ loader' = [loader EXCEPT ![w] =
           [pc |-> "down", data |-> Null, session |-> <<>>,
            outcome |-> "none", populated |-> FALSE]]
    /\ UNCHANGED <<taxonomy, taxonomyFile, Service, History, journal>>

\* data/taxonomy.json is created, replaced or removed.
FileChanged(file) ==
    /\ taxonomyFile # file
    /\ taxonomyFile' = file
    /\ UNCHANGED <<taxonomy, loader, Service, History, journal>>

\* Some process is past its startup and takes requests.
Serving == \E w \in Processes : loader[w].pc = "serving"

LoadStep(w) ==
    \/ LoadExists(w)
    \/ LoadRead(w)
    \/ LoadQuery(w)
    \/ LoadAdd(w)
    \/ LoadCommit(w)
    \/ LoadStorageFault(w)

NextStartup ==
    \/ \E w \in Processes : Quiet /\ Lifespan(w)
    \/ \E w \in Processes : Quiet /\ LoadExists(w)
    \/ \E w \in Processes : Quiet /\ LoadRead(w)
    \/ \E w \in Processes : Quiet /\ LoadQuery(w)
    \/ \E w \in Processes :
           /\ Quiet
           /\ LoadAdd(w)
           /\ \A i \in DOMAIN loader'[w].session : loader'[w].session[i].created_at = 1
    \/ \E w \in Processes : Quiet /\ LoadCommit(w)
    \/ \E w \in Processes : Quiet /\ LoadStorageFault(w)
    \/ \E w \in Processes : Quiet /\ Restart(w)
    \/ \E file \in TaxonomyFiles : Quiet /\ FileChanged(file)
    \/ \E credential \in Credentials :
           Serving /\ Quiet /\ health_check(credential) /\ UNCHANGED Aside
    \/ Serving /\ Quiet /\ StatsRequest("demo-key-123") /\ UNCHANGED Aside
    \/ Serving /\ Quiet /\ feedback_stats /\ UNCHANGED Aside
    \/ ReaderResponseSent /\ UNCHANGED Aside

\* The processes are down over a store an earlier run left one correction
\* with two adjustments in, and the file is any of the files.
InitStartup ==
    LET payload == CorrectionIn(PTwo)
        pending == PendingAdjustments(payload)
    IN  /\ corrections = {FeedbackCorrection(payload, 1, 1)}
        /\ adjustments = {IngredientAdjustment(1, pending[i], i) : i \in DOMAIN pending}
        /\ writeLock = Free
        /\ post = [r \in Writers |-> IdlePost]
        /\ reader = IdleReader
        /\ submitted = (1 :> PTwo)
        /\ commitLog = <<1>>
        /\ sent = [e \in Endpoints |-> 0]
        /\ throttled = [e \in Endpoints |-> 0]
        /\ journal = NoJournal
        /\ taxonomy = {}
        /\ taxonomyFile \in TaxonomyFiles
        /\ loader = [w \in Processes |->
               [pc |-> "down", data |-> Null, session |-> <<>>,
                outcome |-> "none", populated |-> FALSE]]

SpecStartup == InitStartup /\ [][NextStartup]_vars

(***************************************************************************)
(* Two writers, with the journal of the refused and rolled back POSTs.     *)
(***************************************************************************)
IdPayloads == {PNone, PTwo, PZeroGrams}

NextIds ==
    \/ \E r \in Writers, credential \in Credentials, p \in IdPayloads :
           /\ Quiet
           /\ PostCorrectionRequest(r, credential, p)
           /\ Journal({"refused", "rolledBack"})
    \/ \E r \in Writers :
           /\ Quiet
           /\ Cardinality(corrections) < MaxCorrections
           /\ PostFlush(r) /\ post'[r].row.created_at = 1
           /\ Journal({"refused", "rolledBack"})
    \/ \E r \in Writers :
           Quiet /\ PostCommit(r) /\ Journal({"refused", "rolledBack"})
    \/ \E r \in Writers :
           Quiet /\ PostRefresh(r) /\ Journal({"refused", "rolledBack"})
    \/ \E r \in Writers :
           Quiet /\ PostStorageFault(r) /\ Journal({"refused", "rolledBack"})
    \/ \E r \in Writers :
           PostResponseSent(r) /\ Journal({"refused", "rolledBack"})

SpecIds == Init /\ [][NextIds]_vars

(***************************************************************************)
(* GET /stats over stores of every label mix, and one POST answered 201.   *)
(***************************************************************************)
LabelSeq == <<Str("A", 1), Str("B", 1), Str("C", 1), Str("D", 1), Str("E", 1), Str("F", 1)>>

\* A valid payload whose corrected name is the label.
LabelPayload(label) == [PNone EXCEPT !.corrected.name = label]

StatsPayloads == {LabelPayload(LabelSeq[1]), LabelPayload(LabelSeq[6]), PZeroGrams}

\* The corrections in the store before the j-th label's.
RECURSIVE Offset(_, _)
Offset(counts, j) == IF j = 1 THEN 0 ELSE Offset(counts, j - 1) + counts[j - 1]

\* The store after counts[j] POSTs of the j-th label were answered 201, label
\* by label.
StoredRows(counts) ==
    UNION {{FeedbackCorrection(LabelPayload(LabelSeq[j]), Offset(counts, j) + i, 1) :
               i \in 1..counts[j]} : j \in DOMAIN LabelSeq}

InitStats ==
    \E counts \in [DOMAIN LabelSeq -> 0..MaxLabelCount] :
        LET rows == StoredRows(counts)
            n == Cardinality(rows)
        IN  /\ corrections = rows
            /\ adjustments = {}
            /\ writeLock = Free
            /\ post = [r \in Writers |-> IdlePost]
            /\ reader = IdleReader
            /\ submitted = [id \in 1..n |->
                   LabelPayload((CHOOSE c \in rows : c.id = id).corrected_name)]
            /\ commitLog = [id \in 1..n |-> id]
            /\ sent = [e \in Endpoints |-> 0]
            /\ throttled = [e \in Endpoints |-> 0]
            /\ journal = NoJournal
            /\ taxonomy = {}
            /\ taxonomyFile = NoFile
            /\ loader = [w \in Processes |-> ServingLoader("missing", FALSE)]

\* One POST is followed from its arrival to its 201.
NextStats ==
    \/ \E credential \in Credentials, p \in StatsPayloads :
           /\ Quiet
           /\ journal.created = Null
           /\ PostCorrectionRequest("w1", credential, p) /\ Journal({"created"})
    \/ Quiet /\ PostFlush("w1") /\ post'["w1"].row.created_at = 1
             /\ Journal({"created"})
    \/ Quiet /\ PostCommit("w1") /\ Journal({"created"})
    \/ Quiet /\ PostRefresh("w1") /\ Journal({"created"})
    \/ PostResponseSent("w1") /\ Journal({"created"})
    \/ \E credential \in Credentials :
           Quiet /\ StatsRequest(credential) /\ Journal({"created"})
    \/ Quiet /\ feedback_stats /\ Journal({"created"})
    \/ Quiet /\ StatsStorageFault /\ Journal({"created"})
    \/ ReaderResponseSent /\ Journal({"created"})

SpecStats == InitStats /\ [][NextStats]_vars

(***************************************************************************)
(* Properties.                                                             *)
(***************************************************************************)
\* The adjustment list a raw payload submits, read off the payload itself.
SubmittedAdjustments(raw) ==
    IF "adjustments" \in DOMAIN raw /\ IsList(raw.adjustments)
    THEN [i \in DOMAIN raw.adjustments.items |->
             LET a == raw.adjustments.items[i]
             IN  [ingredient |-> a.ingredient,
                  deltaGrams |-> a.deltaGrams,
                  notes      |-> IF "notes" \in DOMAIN a THEN a.notes ELSE Null]]
    ELSE <<>>

\* The committed adjustment rows of a correction, as (ingredient, deltaGrams,
\* notes) in the order of their insertion.
VisibleAdjustments(id) ==
    LET mine == {a \in adjustments : a.correction_id = id}
        ordered == SortKeyed({[k |-> a.id, v |-> a] : a \in mine})
    IN  [i \in DOMAIN ordered |->
            [ingredient |-> ordered[i].ingredient,
             deltaGrams |-> ordered[i].delta_grams,
             notes      |-> ordered[i].notes]]

VisibleIds == {c.id : c \in corrections}

\* The records of an export body, format by format, in a common shape.
ExportRecord(format, line) ==
    IF format = "jsonl"
    THEN LET obj == line.json
         IN  [id |-> obj.id, imageId |-> obj.imageId,
              original_name |-> obj.original.name,
              original_grams |-> obj.original.grams,
              corrected_name |-> obj.corrected.name,
              corrected_grams |-> obj.corrected.grams,
              adjustments |-> IF "adjustments" \in DOMAIN obj
                              THEN obj.adjustments ELSE <<>>]
    ELSE [id |-> line.id, imageId |-> line.imageId,
          original_name |-> line.original_name,
          original_grams |-> line.original_grams,
          corrected_name |-> line.corrected_name,
          corrected_grams |-> line.corrected_grams,
          adjustments |-> IF line.adjustments = Str("", 0)
                          THEN <<>> ELSE line.adjustments.json]

ExportDone ==
    reader.pc = "done" /\ reader.kind = "export" /\ reader.status = HTTP_200

ExportRecords ==
    [i \in DOMAIN reader.body.lines |-> ExportRecord(reader.format, reader.body.lines[i])]

\* C1: a request's rows are visible all together or not at all.  Every visible
\* correction was committed by a request and has exactly the adjustments that
\* request submitted; every visible adjustment names a visible correction; a
\* request that has flushed but not committed shows none of its rows; and each
\* record an export reads carries the whole adjustment list of its correction.
C1_AllOrNothing ==
    /\ \A c \in corrections :
           /\ c.id \in DOMAIN submitted
           /\ VisibleAdjustments(c.id) = SubmittedAdjustments(submitted[c.id])
    /\ \A a \in adjustments : a.correction_id \in VisibleIds
    /\ \A r \in Writers :
           post[r].pc = "commit" => post[r].row.id \notin VisibleIds
    /\ ExportDone =>
           \A i \in DOMAIN ExportRecords :
               ExportRecords[i].adjustments =
                   SubmittedAdjustments(submitted[ExportRecords[i].id])

\* A correction with two adjustments is visible while another request holds
\* an uncommitted correction with two pending adjustments and an export is
\* between its two reads.
C1_Witness ==
    /\ \E c \in corrections : Len(VisibleAdjustments(c.id)) = 2
    /\ \E r \in Writers : post[r].pc = "commit" /\ Len(post[r].pending) = 2
    /\ reader.pc = "load"

BadCredential(credential) == credential \in {"absent", "invalid-key"}

\* A POST with a bad credential is answered 401 and never entered the handler.
C2_PostRejected ==
    \A r \in Writers :
        (post[r].pc # "idle" /\ BadCredential(post[r].credential)) =>
            /\ post[r].pc = "done"
            /\ post[r].status = HTTP_401
            /\ post[r].row = Null
            /\ ~post[r].persisted

\* So is an export or stats request; /health is answered 200.
C2_ReaderRejected ==
    (reader.pc # "idle" /\ BadCredential(reader.credential)) =>
        IF reader.kind = "health"
        THEN reader.pc = "done" /\ reader.status = HTTP_200
        ELSE reader.pc = "done" /\ reader.status = HTTP_401 /\ reader.body = Null

\* The step that receives a request with a bad credential changes no table.
C2_StoreUntouched ==
    (\/ \E r \in Writers : post[r].pc = "idle" /\ BadCredential(post'[r].credential)
     \/ reader.pc = "idle" /\ BadCredential(reader'.credential))
        => UNCHANGED <<corrections, adjustments, writeLock, submitted, commitLog>>

PortionOutOfBounds(o) ==
    \/ ~({"name", "grams"} \subseteq DOMAIN o)
    \/ o.name.n < 1 \/ o.name.n > 200
    \/ o.grams < 1 \/ o.grams > 10000

AdjustmentOutOfBounds(a) ==
    \/ ~({"ingredient", "deltaGrams"} \subseteq DOMAIN a)
    \/ a.ingredient.n < 1 \/ a.ingredient.n > 100
    \/ "notes" \in DOMAIN a /\ IsStr(a.notes) /\ a.notes.n > 500

OutOfBounds(raw) ==
    \/ ~({"imageId", "original", "corrected"} \subseteq DOMAIN raw)
    \/ raw.imageId.n < 1 \/ raw.imageId.n > 200
    \/ PortionOutOfBounds(raw.original)
    \/ PortionOutOfBounds(raw.corrected)
    \/ /\ "adjustments" \in DOMAIN raw
       /\ IsList(raw.adjustments)
       /\ \E i \in DOMAIN raw.adjustments.items :
              AdjustmentOutOfBounds(raw.adjustments.items[i])

PostAnswered(r) == post[r].pc = "done" /\ post[r].raw # Null

\* A payload that breaks a bound is answered 422 before the handler.
C3_Rejected ==
    \A r \in Writers :
        (post[r].pc # "idle" /\ post[r].raw # Null /\ OutOfBounds(post[r].raw)) =>
            /\ post[r].pc = "done"
            /\ post[r].status = HTTP_422
            /\ post[r].row = Null
            /\ ~post[r].persisted

\* Every stored row is within the bounds and comes from such a payload.
C3_Stored ==
    \A c \in corrections :
        /\ c.original_grams \in 1..10000
        /\ c.corrected_grams \in 1..10000
        /\ c.image_id.n \in 1..200
        /\ c.original_name.n \in 1..200
        /\ c.corrected_name.n \in 1..200
        /\ c.id \in DOMAIN submitted
        /\ ~OutOfBounds(submitted[c.id])
        /\ \A a \in adjustments :
               a.correction_id = c.id =>
                   /\ a.ingredient.n \in 1..100
                   /\ IsStr(a.notes) => a.notes.n <= 500

\* The step that answers 422 changes no table.
C3_NoRowOn422 ==
    (\E r \in Writers : post[r].pc = "idle" /\ post'[r].status = HTTP_422)
        => UNCHANGED <<corrections, adjustments, writeLock, submitted, commitLog>>

\* C3: a payload that breaks a documented bound is answered 422 and the step
\* that answers it adds no row; every stored correction has both grams values
\* in 1..10000, a non-empty imageId and non-empty names, and comes from a
\* payload within the bounds, so no rejected input reaches an export or stats.
C3_Validation ==
    /\ [](C3_Rejected /\ C3_Stored)
    /\ [][C3_NoRowOn422]_vars

\* A payload with grams = 0 is answered 422 while the store holds a correction.
C3_Witness ==
    /\ corrections # {}
    /\ post["w1"].pc = "done"
    /\ post["w1"].raw = PZeroGrams
    /\ post["w1"].status = HTTP_422

\* Whether a raw payload carries a field outside the recognized schema, at the
\* top level, inside original or corrected, or inside an adjustment entry.
HasUnknownField(raw) ==
    \/ ~(DOMAIN raw \subseteq {"imageId", "original", "corrected", "adjustments"})
    \/ "original" \in DOMAIN raw /\ ~(DOMAIN raw.original \subseteq {"name", "grams"})
    \/ "corrected" \in DOMAIN raw /\ ~(DOMAIN raw.corrected \subseteq {"name", "grams"})
    \/ /\ "adjustments" \in DOMAIN raw
       /\ IsList(raw.adjustments)
       /\ \E i \in DOMAIN raw.adjustments.items :
              ~(DOMAIN raw.adjustments.items[i]
                    \subseteq {"ingredient", "deltaGrams", "notes"})

\* C4: a payload with a field outside the recognized schema, at any depth, is
\* never answered 201 and never becomes a stored correction.
C4_UnknownFieldRejected ==
    /\ \A r \in Writers :
           (PostAnswered(r) /\ HasUnknownField(post[r].raw)) =>
               post[r].status # HTTP_201
    /\ \A c \in corrections :
           c.id \in DOMAIN submitted => ~HasUnknownField(submitted[c.id])

\* C5: a request answered 500 has persisted nothing: its correction is not in
\* the store and its commit did not happen.
C5_FaultLeavesNothing ==
    \A r \in Writers :
        (post[r].pc = "done" /\ post[r].status = HTTP_500) =>
            /\ ~post[r].persisted
            /\ post[r].row # Null => post[r].row \notin corrections

\* C6: once a client has sent quota + 2 requests to an endpoint within the
\* minute and all are answered, at least one of them was answered 429.
C6_BurstIsThrottled ==
    \A route \in Endpoints :
        (Idle /\ sent[route] = Burst(route)) => throttled[route] >= 1

\* C7: a request answered 201 gets the persisted record: the id and creation
\* timestamp of the correction its commit stored, the submitted imageId,
\* original and corrected, and the submitted adjustments element for element
\* in submission order.
C7_CreatedRecord ==
    \A r \in Writers :
        (post[r].pc = "done" /\ post[r].status = HTTP_201) =>
            LET raw == post[r].raw
                body == post[r].body
            IN  /\ body.id \in DOMAIN submitted
                /\ submitted[body.id] = raw
                /\ \E c \in corrections :
                       c.id = body.id /\ c.created_at = body.createdAt
                /\ body.imageId = raw.imageId
                /\ body.original.name = raw.original.name
                /\ body.original.grams = raw.original.grams
                /\ body.corrected.name = raw.corrected.name
                /\ body.corrected.grams = raw.corrected.grams
                /\ AdjItems(body.adjustments) = SubmittedAdjustments(raw)

\* The payload at the bounds, with two adjustments, is answered 201.
C7_Witness ==
    /\ post["w1"].pc = "done"
    /\ post["w1"].status = HTTP_201
    /\ post["w1"].raw = PEdge
    /\ Len(AdjItems(post["w1"].body.adjustments)) = 2

\* C8: every correction committed before an export's query ran appears in the
\* export, JSONL or CSV, exactly once, with the submitted imageId, names and
\* grams and the submitted adjustments in submission order, whatever else was
\* posted before or after.
C8_RoundTrip ==
    ExportDone =>
        \A N \in reader.known :
            LET raw == submitted[N]
                at == {i \in DOMAIN ExportRecords : ExportRecords[i].id = N}
            IN  /\ Cardinality(at) = 1
                /\ \A i \in at :
                       LET rec == ExportRecords[i]
                       IN  /\ rec.imageId = raw.imageId
                           /\ rec.original_name = raw.original.name
                           /\ rec.original_grams = raw.original.grams
                           /\ rec.corrected_name = raw.corrected.name
                           /\ rec.corrected_grams = raw.corrected.grams
                           /\ rec.adjustments = SubmittedAdjustments(raw)

\* A CSV export of two corrections, one posted with two adjustments and one
\* with none.
C8_Witness ==
    /\ ExportDone
    /\ reader.format = "csv"
    /\ Cardinality(reader.known) = 2
    /\ \E N \in reader.known : Len(SubmittedAdjustments(submitted[N])) = 2
    /\ \E N \in reader.known : Len(SubmittedAdjustments(submitted[N])) = 0

\* C9: an export lists the corrections in strictly ascending id order, also
\* when a POST commits between the export's reads, and its last record is the
\* correction most recently committed when its query ran.
C9_AscendingIds ==
    ExportDone =>
        /\ \A i, j \in DOMAIN ExportRecords :
               i < j => ExportRecords[i].id < ExportRecords[j].id
        /\ reader.last # 0 =>
               /\ Len(ExportRecords) > 0
               /\ ExportRecords[Len(ExportRecords)].id = reader.last
        /\ reader.last = 0 => Len(ExportRecords) = 0

\* An export of one correction finishes after a second correction was
\* committed behind its query.
C9_Witness ==
    /\ ExportDone
    /\ Len(reader.body.lines) = 1
    /\ Cardinality(corrections) = 2

\* C10: in a JSONL export an object has the adjustments field exactly when its
\* correction was posted with at least one adjustment, and the field is never
\* an empty array.
C10_AdjustmentsField ==
    (ExportDone /\ reader.format = "jsonl") =>
        \A i \in DOMAIN reader.body.lines :
            LET obj == reader.body.lines[i].json
            IN  /\ obj.id \in DOMAIN submitted
                /\ "adjustments" \in DOMAIN obj <=>
                       Len(SubmittedAdjustments(submitted[obj.id])) > 0
                /\ "adjustments" \in DOMAIN obj => Len(obj.adjustments) > 0

\* A JSONL export of a correction that was posted with adjustments = [].
C10_Witness ==
    /\ ExportDone
    /\ reader.format = "jsonl"
    /\ \E i \in DOMAIN reader.body.lines :
           /\ submitted[reader.body.lines[i].json.id] = PEmpty
           /\ "adjustments" \notin DOMAIN reader.body.lines[i].json

\* C11: an export answers with as many records as corrections were stored
\* when its query ran: JSONL is exactly that many lines and nothing else, CSV
\* the one header line id,imageId,original_name,original_grams,corrected_name,
\* corrected_grams,adjustments,createdAt followed by that many rows.  For a
\* store holding no correction that is an empty JSONL body and a CSV body of
\* the header alone, whatever POSTs were refused or failed before.
C11_ExportCounts ==
    ExportDone =>
        LET k == Cardinality(reader.known)
        IN  /\ Len(reader.body.lines) = k
            /\ reader.format = "jsonl" => DOMAIN reader.body = {"lines"}
            /\ reader.format = "csv" =>
                   /\ DOMAIN reader.body = {"header", "lines"}
                   /\ Writerow(reader.body.header) =
                          "id,imageId,original_name,original_grams,"
                          \o "corrected_name,corrected_grams,adjustments,createdAt"

\* The lines of text of the export body.
RECURSIVE SumLines(_, _)
SumLines(format, lines) ==
    IF lines = <<>> THEN 0
    ELSE (IF format = "jsonl" THEN JsonlLines(Head(lines)) ELSE CsvRowLines(Head(lines)))
         + SumLines(format, Tail(lines))

\* C11 as stated: with k corrections stored, the JSONL body is k lines of
\* text and the CSV body k + 1.
C11_LineCounts ==
    ExportDone =>
        SumLines(reader.format, reader.body.lines)
            + (IF reader.format = "csv" THEN 1 ELSE 0)
        = Cardinality(reader.known) + (IF reader.format = "csv" THEN 1 ELSE 0)

\* A CSV export of the empty store is answered after one POST was rejected
\* with 422, one with 401 and one failed with 500.
C11_Witness ==
    /\ ExportDone
    /\ reader.format = "csv"
    /\ reader.known = {}
    /\ corrections = {}
    /\ reader.body.lines = <<>>
    /\ {HTTP_401, HTTP_422, HTTP_500} \subseteq journal.refused

StatsDone ==
    reader.pc = "done" /\ reader.kind = "stats" /\ reader.status = HTTP_200

StoredLabels == {c.corrected_name : c \in corrections}
StoredCount(label) == Cardinality({c \in corrections : c.corrected_name = label})

\* Entry a comes before entry b: by count descending, then by label ascending.
Precedes(a, b) ==
    \/ a.count > b.count
    \/ a.count = b.count /\ StrLess(a.label, b.label)

\* C12: the list GET /stats answers is the reference result for the store it
\* read: one entry per label with the exact number of stored corrections of
\* that label, no label twice, in the order count descending then label
\* ascending, cut after the first 5, so min(5, distinct labels) entries and
\* every label left out comes after every entry; [A,A,A,B,B,C] gives
\* [{A,3},{B,2},{C,1}] and [A,A,B,B] gives [{A,2},{B,2}].
C12_StatsReference ==
    StatsDone =>
        LET t == reader.body.top5
            Entry(l) == [label |-> l, count |-> StoredCount(l)]
            listed == {t[i].label : i \in DOMAIN t}
            Mix(a, b, c) ==
                /\ StoredLabels = {LabelSeq[j] : j \in {n \in 1..3 : <<a, b, c>>[n] > 0}}
                /\ \A j \in 1..3 : StoredCount(LabelSeq[j]) = <<a, b, c>>[j]
        IN  /\ Len(t) = IF Cardinality(StoredLabels) < 5
                        THEN Cardinality(StoredLabels) ELSE 5
            /\ \A i \in DOMAIN t : t[i].label \in StoredLabels /\ t[i] = Entry(t[i].label)
            /\ \A i, j \in DOMAIN t : i < j => Precedes(t[i], t[j])
            /\ \A l \in StoredLabels \ listed :
                   \A i \in DOMAIN t : Precedes(t[i], Entry(l))
            /\ corrections = {} => t = <<>>
            /\ Mix(3, 2, 1) => t = <<[label |-> LabelSeq[1], count |-> 3],
                                     [label |-> LabelSeq[2], count |-> 2],
                                     [label |-> LabelSeq[3], count |-> 1]>>
            /\ Mix(2, 2, 0) => t = <<[label |-> LabelSeq[1], count |-> 2],
                                     [label |-> LabelSeq[2], count |-> 2]>>

\* Stats are answered for a store of six labels, two of which tie for the
\* fifth place, after a POST has raised one label's count to three.
C12_Witness ==
    /\ StatsDone
    /\ Cardinality(StoredLabels) = 6
    /\ Len(reader.body.top5) = 5
    /\ reader.body.top5[1].count = 3
    /\ \E l \in StoredLabels :
           /\ \A i \in DOMAIN reader.body.top5 : reader.body.top5[i].label # l
           /\ StoredCount(l) = reader.body.top5[5].count

\* The label has an entry in the list the stats request answered.
Listed(label) ==
    \E i \in DOMAIN reader.body.top5 : reader.body.top5[i].label = label

\* The stored labels that come before the label in the statistics' order.
LabelsBefore(label) ==
    {l \in StoredLabels :
        Precedes([label |-> l, count |-> StoredCount(l)],
                 [label |-> label, count |-> StoredCount(label)])}

\* C13 as stated: once a POST with corrected name L was answered 201, the
\* next list GET /stats answers has an entry for L, whatever is stored.
C13_LabelListed ==
    (StatsDone /\ journal.asked # Null) => Listed(journal.asked)

\* C13: once a POST with corrected name L was answered 201, the next list
\* GET /stats answers has an entry for L exactly when fewer than 5 stored
\* labels come before L by count descending, then label ascending.
C13_ListedWhenRanked ==
    (StatsDone /\ journal.asked # Null) =>
        (Listed(journal.asked) <=> Cardinality(LabelsBefore(journal.asked)) < 5)

\* A GET /stats that arrived after a POST was answered 201 lists the POST's
\* label, stored once, among the five entries kept of six stored labels.
C13_Witness ==
    /\ StatsDone
    /\ journal.asked # Null
    /\ Listed(journal.asked)
    /\ Cardinality(StoredLabels) = 6
    /\ StoredCount(journal.asked) = 1

\* What a reader of the JSONL line gets.
JsonlRecord(line) ==
    LET obj == line.json
    IN  [id |-> obj.id, imageId |-> obj.imageId,
         original_name |-> obj.original.name,
         original_grams |-> obj.original.grams,
         corrected_name |-> obj.corrected.name,
         corrected_grams |-> obj.corrected.grams,
         createdAt |-> obj.createdAt,
         adjustments |-> IF "adjustments" \in DOMAIN obj THEN obj.adjustments ELSE <<>>]

\* What a reader of the CSV row gets, the adjustments cell decoded.
CsvRecord(row) ==
    [id |-> row.id, imageId |-> row.imageId,
     original_name |-> row.original_name,
     original_grams |-> row.original_grams,
     corrected_name |-> row.corrected_name,
     corrected_grams |-> row.corrected_grams,
     createdAt |-> row.createdAt,
     adjustments |-> IF row.adjustments = Str("", 0) THEN <<>> ELSE row.adjustments.json]

\* C14: for the store an export read, its body and the body of the other
\* format hold the same records in the same order: the i-th CSV row and the
\* i-th JSONL line agree on id, imageId, names, grams, createdAt and the
\* adjustment list; the CSV cell is empty exactly when the JSONL object has no
\* adjustments field, and otherwise is the JSON text of the object's list.
C14_FormatsEquivalent ==
    ExportDone =>
        LET jsonl == IF reader.format = "jsonl" THEN reader.body.lines
                     ELSE _stream_jsonl(reader.rows, adjustments)
            csv == IF reader.format = "csv" THEN reader.body.lines
                   ELSE _stream_csv(reader.rows, adjustments)
        IN  /\ Len(jsonl) = Len(csv)
            /\ \A i \in DOMAIN jsonl :
                   /\ JsonlRecord(jsonl[i]) = CsvRecord(csv[i])
                   /\ csv[i].adjustments = Str("", 0)
                          <=> "adjustments" \notin DOMAIN jsonl[i].json
                   /\ csv[i].adjustments # Str("", 0) =>
                          csv[i].adjustments = JsonDumps(jsonl[i].json.adjustments)

\* A JSONL export of two corrections, the first stored with two adjustments
\* and the second with none and a line break in its imageId.
C14_Witness ==
    /\ ExportDone
    /\ reader.format = "jsonl"
    /\ Len(reader.body.lines) = 2
    /\ "adjustments" \in DOMAIN reader.body.lines[1].json
    /\ Len(reader.body.lines[1].json.adjustments) = 2
    /\ "adjustments" \notin DOMAIN reader.body.lines[2].json
    /\ reader.body.lines[2].json.imageId = Str("\n", 1)

\* C15: the ids of the committed corrections are pairwise distinct and rise
\* in commit order, whatever requests were refused, failed or rolled back in
\* between: every commit's id is greater than every id committed before it,
\* each committed id names exactly one stored correction, and a request that
\* has flushed but not committed holds an id no committed correction has.
C15_IdsRiseInCommitOrder ==
    /\ \A i, j \in DOMAIN commitLog : i < j => commitLog[i] < commitLog[j]
    /\ \A i \in DOMAIN commitLog :
           Cardinality({c \in corrections : c.id = commitLog[i]}) = 1
    /\ Cardinality(corrections) = Len(commitLog)
    /\ \A r \in Writers :
           post[r].pc = "commit" =>
               \A i \in DOMAIN commitLog : commitLog[i] < post[r].row.id

\* Two corrections are committed after a POST was rejected with 422 and a
\* request rolled back the id its flush had been given, which a later
\* request then committed.
C15_Witness ==
    /\ Len(commitLog) = 2
    /\ HTTP_422 \in journal.refused
    /\ HTTP_500 \in journal.refused
    /\ \E id \in journal.rolledBack : \E i \in DOMAIN commitLog : commitLog[i] = id

\* The process w ends its load in this step.
LoadEnds(w) == loader[w].pc \notin {"down", "serving"} /\ loader'[w].pc = "serving"

\* A load that began on a populated table changes no taxonomy row.
C16_PopulatedUntouched ==
    \A w \in Processes :
        (loader[w].populated /\ loader'[w] # loader[w]) => taxonomy' = taxonomy

\* The table changes only in the commit of a load that found it empty, and
\* then by all the dishes of that load's file; a load that ends any other
\* way (file missing or unreadable, an entry without id or name, a
\* constraint violated part-way, the store failing) commits no row.
C16_FailedLoadCommitsNothing ==
    /\ taxonomy' # taxonomy =>
           \E w \in Processes :
               /\ loader[w].pc = "commit"
               /\ LoadEnds(w) /\ loader'[w].outcome = "loaded"
               /\ taxonomy' = taxonomy \cup
                      {loader[w].session[i] : i \in DOMAIN loader[w].session}
    /\ \A w \in Processes :
           (LoadEnds(w) /\ loader'[w].outcome # "loaded") => taxonomy' = taxonomy

\* No step of a startup changes a correction or an adjustment row.
C16_FeedbackRowsUntouched ==
    loader' # loader => UNCHANGED <<corrections, adjustments>>

\* Every load in progress can take a step, and every way it ends leaves the
\* process serving.
C16_StartupCompletes ==
    \A w \in Processes :
        /\ loader[w].pc \in {"down", "exists", "read", "query", "add", "commit", "serving"}
        /\ loader[w].pc \notin {"down", "serving"} => ENABLED LoadStep(w)
        /\ loader[w].pc = "serving" =>
               loader[w].outcome \in {"missing", "present", "loaded", "error"}

\* C16: the taxonomy load is idempotent and never blocks the service: run on
\* a populated table it inserts nothing, so the table stays as the first
\* load that committed left it; a load that fails (file missing or
\* unreadable, an entry failing part-way) commits no row and its error is
\* swallowed, the startup completing with the process serving; and no load
\* touches a correction or adjustment row.
C16_LoadIdempotent ==
    /\ []C16_StartupCompletes
    /\ [][/\ C16_PopulatedUntouched
          /\ C16_FailedLoadCommitsNothing
          /\ C16_FeedbackRowsUntouched]_vars

\* One process restarted on the populated table and inserted nothing though
\* the file had changed, the other swallowed an error; the table holds the
\* two dishes of the first load and GET /stats is answered 200 from the
\* stored correction.
C16_Witness ==
    /\ Cardinality(taxonomy) = 2
    /\ taxonomyFile = JsonFile([dishes |-> <<Pho>>])
    /\ loader["p1"].pc = "serving" /\ loader["p1"].outcome = "present"
    /\ loader["p1"].populated
    /\ loader["p2"].pc = "serving" /\ loader["p2"].outcome = "error"
    /\ StatsDone
    /\ Len(reader.body.top5) = 1
    /\ Cardinality(corrections) = 1 /\ Cardinality(adjustments) = 2

====
